---- MODULE Spec2Model ----
(***************************************************************************)
(* Peer signaling relay and partner linking of cuddle_api.                 *)
(*                                                                         *)
(* The relay (the WebRTC signaling routes, src/unnamed/part_001, lines     *)
(* 86-240) keeps one module-level Map, signalingStore.  A recipient's      *)
(* slot lives under the key <id>, its candidate queue under ice-<id>.      *)
(* Every send handler awaits one account lookup (User.findById) and runs   *)
(* to its response without another await; the poll handler has no await    *)
(* at all.  Node runs one handler segment at a time, so a step of the      *)
(* model is one such segment: the code from one await to the next,         *)
(* together with the store or database operation that segment issues.      *)
(* The segments before an await touch no shared state apart from the       *)
(* database operation they issue, so folding the operation into the        *)
(* issuing segment keeps every interleaving of shared-state accesses.      *)
(*                                                                         *)
(* Partner linking (src/src/routes/authRoutes.js, lines 131-182) is four   *)
(* database operations separated by awaits: two reads and two saves, and   *)
(* then the push to the partner (NotificationService.sendToUser), which    *)
(* the handler awaits before it answers.                                   *)
(*                                                                         *)
(* Presence (authRoutes.js, lines 59-125 and 188-265) is stored in the     *)
(* User documents and derived from them and from the clock when it is      *)
(* read.  Every protected route runs behind the auth middleware            *)
(* (src/unnamed/part_000).                                                 *)
(*                                                                         *)
(* Specifications: Spec (the relay), SpecCandidates (candidate sends and   *)
(* polls), SpecLive (the relay with fair continuations), SpecLink          *)
(* (linking), SpecMailbox (linking interleaved with sends), SpecTouch,     *)
(* SpecTyping and SpecPresence (presence under a moving clock), SpecExpiry *)
(* (the relay under a moving clock), SpecSeparate (relay and presence      *)
(* together), SpecAuth (all protected routes behind the middleware),       *)
(* SpecPush (the two routes that push).                                    *)
(***************************************************************************)
EXTENDS Bags, FiniteSets, Integers, Sequences, TLC

\* Handlers that may be suspended at an await at the same time.
MaxInflight == 2
\* Requests the server receives in one run.
MaxRequests == 3

\* Account identities (the _id of a User document, the id inside the token).
Ids == {"u1", "u2", "u3"}
\* partnerId: null (src/src/models/User.js:34).
Null == "null"
\* A request field that is undefined, null or "": everything `!x` rejects.
Absent == "absent"
\* Session descriptions and candidate fragments: opaque to the relay.
Sdps == {"s1", "s2"}
Candidates == {"c1", "c2"}

VARIABLES
    users,            \* the User collection: id -> document, or NoUser
    signalingStore,   \* the Map of src/unnamed/part_001:97
    now,              \* Date.now() in milliseconds; the clock stands still
                      \* in the specifications that have no Tick
    inflight,         \* bag of handlers suspended at an await, with their locals
    res,              \* the response most recently sent
    requests,         \* number of requests received so far
    sent,             \* per recipient: what accepted sends have addressed to it
                      \* since its last poll (history, not read by the handlers)
    drained           \* the `sent` record of the caller of the most recent poll,
                      \* as it was when that poll ran (history)

vars == <<users, signalingStore, now, inflight, res, requests, sent, drained>>

----------------------------------------------------------------------------
(* The account store. *)

\* User.findById(id) resolving to null.
NoUser == [missing |-> TRUE]

\* The invite code each account got at registration (generateInviteCode
\* draws from upper-case letters and digits).
InviteCodeOf == [id \in Ids |-> CASE id = "u1" -> "AAAA2222"
                                   [] id = "u2" -> "BBBB3333"
                                   [] OTHER -> "CCCC4444"]

\* The push subscription each account has stored through /subscribe, null for
\* an account that never subscribed (src/src/models/User.js:46-52).
SubscriptionOf == [id \in Ids |-> IF id = "u2" THEN Null ELSE "endpoint"]

\* typingAt: null (src/src/models/User.js:75), kept apart from every instant.
NoDate == -1

\* A User document as registration and /subscribe leave it, restricted to
\* the fields the handlers read: created at instant 0, offline, not typing.
UserDoc(id, partner) ==
    [_id |-> id, partnerId |-> partner, inviteCode |-> InviteCodeOf[id],
     pushSubscription |-> SubscriptionOf[id],
     lastActiveAt |-> 0, isOnline |-> FALSE, isTyping |-> FALSE, typingAt |-> NoDate]

\* await User.findById(id)
FindById(id) == users[id]

\* String.prototype.toUpperCase on the invite codes a request may carry.
ToUpperCase(code) ==
    CASE code = "bbbb3333" -> "BBBB3333"
      [] code = "Bbbb3333" -> "BBBB3333"
      [] OTHER -> code

\* await User.findOne({ inviteCode }): invite codes are unique.
FindOneByInviteCode(code) ==
    IF \E id \in Ids : users[id] # NoUser /\ users[id].inviteCode = code
    THEN users[CHOOSE id \in Ids : users[id] # NoUser /\ users[id].inviteCode = code]
    ELSE NoUser

\* doc.save() after `doc.partnerId = partner`: writes the modified path.
SavePartnerId(id, partner) == [users EXCEPT ![id].partnerId = partner]

\* The check with the null partner pointer forgotten: `!user`.
NoPartnerRecordOnly(user) == user = NoUser

\* `!user || !user.partnerId`
NoPartner(user) == user = NoUser \/ user.partnerId = Null

----------------------------------------------------------------------------
(* Tokens (the auth middleware, src/unnamed/part_000). *)

\* process.env.JWT_SECRET (line 7).
JwtSecret == "JWT_SECRET"

\* generateToken(userId): the payload { user: { id } } signed with the secret.
GenerateToken(id) == [key |-> JwtSecret, user |-> [id |-> id]]

\* req.header('x-auth-token') of a request that carries none.
NoToken == [key |-> Absent, user |-> [id |-> Null]]

\* A token naming the account id, signed with another key.
Forged(id) == [key |-> "other", user |-> [id |-> id]]

\* The verification that accepts a token signed with any key.
JwtVerifyAnyKey(token) == token.key # Absent

\* jwt.verify(token, JWT_SECRET) does not throw.
JwtVerify(token) == token.key = JwtSecret

----------------------------------------------------------------------------
(* The signaling store: a JavaScript Map. *)

\* One slot key for every recipient.
SlotKeyShared(id) == <<"sig", "all">>

\* user.partnerId.toString() / req.user.id: the key of a recipient's slot.
SlotKey(id) == <<"sig", id>>

\* `ice-${id}`: the key of a recipient's candidate queue.
IceKey(id) == <<"ice", id>>

\* Map.prototype.has
MapHas(m, k) == k \in DOMAIN m

\* A set that keeps an entry already stored under the key.
MapSetIfAbsent(m, k, v) ==
    IF k \in DOMAIN m THEN m ELSE [x \in (DOMAIN m) \cup {k} |-> IF x = k THEN v ELSE m[x]]

\* Map.prototype.set
MapSet(m, k, v) == [x \in (DOMAIN m) \cup {k} |-> IF x = k THEN v ELSE m[x]]

\* Map.prototype.delete
MapDelete(m, k) == [x \in (DOMAIN m) \ {k} |-> m[x]]

\* new Map()
EmptyMap == [x \in {} |-> Null]

\* `signal || null` when nothing is stored under the key.
NullSignal == [type |-> "null"]

\* signalingStore.get(myKey), with undefined rendered as NullSignal.
GetSignal(m, id) == IF MapHas(m, SlotKey(id)) THEN m[SlotKey(id)] ELSE NullSignal

\* signalingStore.get(iceKey) || []
GetIce(m, id) == IF MapHas(m, IceKey(id)) THEN m[IceKey(id)] ELSE <<>>

----------------------------------------------------------------------------
(* Entries written by the send handlers. *)

\* The offer stored without its session description.
OfferEntryNoSdp(sdp, from, t) == [type |-> "offer", sdp |-> Absent, from |-> from, timestamp |-> t]

OfferEntry(sdp, from, t) == [type |-> "offer", sdp |-> sdp, from |-> from, timestamp |-> t]

AnswerEntry(sdp, from, t) == [type |-> "answer", sdp |-> sdp, from |-> from, timestamp |-> t]

EndEntry(from, t) == [type |-> "end", from |-> from, timestamp |-> t]

IceEntry(candidate, from, t) == [candidate |-> candidate, from |-> from, timestamp |-> t]

----------------------------------------------------------------------------
(* Responses. *)

Ok(op, id) == [op |-> op, id |-> id, status |-> 200, body |-> [success |-> TRUE]]

Err(op, id, status, error) == [op |-> op, id |-> id, status |-> status, body |-> [error |-> error]]

NoResponse == [op |-> "none", id |-> Null, status |-> 0, body |-> [success |-> FALSE]]

----------------------------------------------------------------------------
(* History of accepted sends, per recipient. *)

\* signal: the entry of the last accepted slot write; replaced: an earlier
\* accepted slot write was overwritten by it; ice: the accepted fragments in
\* the order their appends ran; polled: the recipient has polled and nothing
\* has been accepted for it since.
NothingSent == [signal |-> NullSignal, replaced |-> FALSE, ice |-> <<>>, polled |-> FALSE]

AfterPoll == [signal |-> NullSignal, replaced |-> FALSE, ice |-> <<>>, polled |-> TRUE]

\* What an accepted request of the given type asks the relay to hand over:
\* its payload, its caller, the time it was accepted.
Accepted(type, r) ==
    IF type = "end"
    THEN [type |-> "end", from |-> r.id, timestamp |-> now]
    ELSE [type |-> type, sdp |-> r.payload, from |-> r.id, timestamp |-> now]

\* An accepted slot write addressed to `to`.
NoteSignal(to, entry) ==
    [sent EXCEPT ![to] = [signal |-> entry,
                          replaced |-> (@.signal # NullSignal),
                          ice |-> @.ice,
                          polled |-> FALSE]]

\* An accepted candidate append addressed to `to`.
NoteIce(to, entry) == [sent EXCEPT ![to].ice = Append(@, entry), ![to].polled = FALSE]

----------------------------------------------------------------------------
(* Suspended handlers. *)

Suspended == BagToSet(inflight)

Suspend(r) == inflight' = inflight (+) SetToBag({r})

Resume(r) == inflight' = inflight (-) SetToBag({r})

\* The handler r moves on to its next await with its locals changed to s.
Await(r, s) == inflight' = (inflight (-) SetToBag({r})) (+) SetToBag({s})

CanSuspend == BagCardinality(inflight) < MaxInflight

\* A request arrives and its handler starts.
Receive == requests < MaxRequests /\ requests' = requests + 1

\* res.json(...) of a handler other than poll: the poll history is over.
Respond(response) == res' = response /\ drained' = NothingSent

----------------------------------------------------------------------------
(* POST /api/webrtc/offer *)

\* The offer handler without its payload check.
OfferBeginUnchecked(id, sdp) ==
    /\ Receive
    /\ \/ /\ Respond(Err("offer", id, 500, "Server error"))
          /\ UNCHANGED inflight
       \/ /\ CanSuspend
          /\ Suspend([op |-> "offer", id |-> id, payload |-> sdp, user |-> FindById(id)])
          /\ UNCHANGED <<res, drained>>
    /\ UNCHANGED <<users, signalingStore, now, sent>>

\* Lines 105-110: the payload check, then the account lookup is awaited.
\* A lookup that rejects resumes in the catch block (lines 125-128), which
\* touches nothing shared.
OfferBegin(id, sdp) ==
    /\ Receive
    /\ \/ /\ sdp = Absent
          /\ Respond(Err("offer", id, 400, "SDP offer required"))
          /\ UNCHANGED inflight
       \/ /\ sdp # Absent
          /\ Respond(Err("offer", id, 500, "Server error"))
          /\ UNCHANGED inflight
       \/ /\ sdp # Absent
          /\ CanSuspend
          /\ Suspend([op |-> "offer", id |-> id, payload |-> sdp, user |-> FindById(id)])
          /\ UNCHANGED <<res, drained>>
    /\ UNCHANGED <<users, signalingStore, now, sent>>

\* The offer handler counting an accepted offer as activity of its caller.
OfferResumeTouching(r) ==
    /\ r.op = "offer"
    /\ Resume(r)
    /\ IF NoPartner(r.user)
       THEN /\ Respond(Err("offer", r.id, 400, "No partner connected"))
            /\ UNCHANGED <<signalingStore, sent, users>>
       ELSE /\ signalingStore' = MapSet(signalingStore, SlotKey(r.user.partnerId),
                                        OfferEntry(r.payload, r.id, now))
            /\ sent' = NoteSignal(r.user.partnerId, Accepted("offer", r))
            /\ users' = [users EXCEPT ![r.id].lastActiveAt = now, ![r.id].isOnline = TRUE]
            /\ Respond(Ok("offer", r.id))
    /\ UNCHANGED <<now, requests>>

\* Lines 111-124: the partner check, the slot write and the response.
OfferResume(r) ==
    /\ r.op = "offer"
    /\ Resume(r)
    /\ IF NoPartner(r.user)
       THEN /\ Respond(Err("offer", r.id, 400, "No partner connected"))
            /\ UNCHANGED <<signalingStore, sent>>
       ELSE /\ signalingStore' = MapSet(signalingStore, SlotKey(r.user.partnerId),
                                        OfferEntry(r.payload, r.id, now))
            /\ sent' = NoteSignal(r.user.partnerId, Accepted("offer", r))
            /\ Respond(Ok("offer", r.id))
    /\ UNCHANGED <<users, now, requests>>

----------------------------------------------------------------------------
(* POST /api/webrtc/answer *)

\* Lines 137-142: the payload check, then the account lookup is awaited.
AnswerBegin(id, sdp) ==
    /\ Receive
    /\ \/ /\ sdp = Absent
          /\ Respond(Err("answer", id, 400, "SDP answer required"))
          /\ UNCHANGED inflight
       \/ /\ sdp # Absent
          /\ Respond(Err("answer", id, 500, "Server error"))
          /\ UNCHANGED inflight
       \/ /\ sdp # Absent
          /\ CanSuspend
          /\ Suspend([op |-> "answer", id |-> id, payload |-> sdp, user |-> FindById(id)])
          /\ UNCHANGED <<res, drained>>
    /\ UNCHANGED <<users, signalingStore, now, sent>>

\* The answer handler that refuses to write over an entry not yet polled.
AnswerResumeIfEmpty(r) ==
    /\ r.op = "answer"
    /\ Resume(r)
    /\ IF NoPartner(r.user)
       THEN /\ Respond(Err("answer", r.id, 400, "No partner connected"))
            /\ UNCHANGED <<signalingStore, sent>>
       ELSE IF MapHas(signalingStore, SlotKey(r.user.partnerId))
       THEN /\ Respond(Err("answer", r.id, 409, "Unexpected answer"))
            /\ UNCHANGED <<signalingStore, sent>>
       ELSE /\ signalingStore' = MapSet(signalingStore, SlotKey(r.user.partnerId),
                                        AnswerEntry(r.payload, r.id, now))
            /\ sent' = NoteSignal(r.user.partnerId, Accepted("answer", r))
            /\ Respond(Ok("answer", r.id))
    /\ UNCHANGED <<users, now, requests>>

\* Lines 143-156: the partner check, the slot write and the response.
AnswerResume(r) ==
    /\ r.op = "answer"
    /\ Resume(r)
    /\ IF NoPartner(r.user)
       THEN /\ Respond(Err("answer", r.id, 400, "No partner connected"))
            /\ UNCHANGED <<signalingStore, sent>>
       ELSE /\ signalingStore' = MapSet(signalingStore, SlotKey(r.user.partnerId),
                                        AnswerEntry(r.payload, r.id, now))
            /\ sent' = NoteSignal(r.user.partnerId, Accepted("answer", r))
            /\ Respond(Ok("answer", r.id))
    /\ UNCHANGED <<users, now, requests>>

----------------------------------------------------------------------------
(* POST /api/webrtc/ice-candidate *)

\* The append that starts from an empty array every time.
IcePushFresh(m, to, entry) == MapSet(m, IceKey(to), <<entry>>)

\* Lines 176-179: get-or-empty, push, set.
IcePush(m, to, entry) == MapSet(m, IceKey(to), Append(GetIce(m, to), entry))

\* The handler checking its payload the way offer and answer check theirs.
IceBeginChecked(id, candidate) ==
    /\ Receive
    /\ \/ /\ candidate = Absent
          /\ Respond(Err("ice-candidate", id, 400, "ICE candidate required"))
          /\ UNCHANGED inflight
       \/ /\ candidate # Absent
          /\ Respond(Err("ice-candidate", id, 500, "Server error"))
          /\ UNCHANGED inflight
       \/ /\ candidate # Absent
          /\ CanSuspend
          /\ Suspend([op |-> "ice-candidate", id |-> id, payload |-> candidate,
                      user |-> FindById(id)])
          /\ UNCHANGED <<res, drained>>
    /\ UNCHANGED <<users, signalingStore, now, sent>>

\* Lines 169-171: no payload check; the account lookup is awaited.
IceBegin(id, candidate) ==
    /\ Receive
    /\ \/ /\ Respond(Err("ice-candidate", id, 500, "Server error"))
          /\ UNCHANGED inflight
       \/ /\ CanSuspend
          /\ Suspend([op |-> "ice-candidate", id |-> id, payload |-> candidate,
                      user |-> FindById(id)])
          /\ UNCHANGED <<res, drained>>
    /\ UNCHANGED <<users, signalingStore, now, sent>>

\* Lines 172-181: the partner check, the append and the response.
IceResume(r) ==
    /\ r.op = "ice-candidate"
    /\ Resume(r)
    /\ IF NoPartner(r.user)
       THEN /\ Respond(Err("ice-candidate", r.id, 400, "No partner connected"))
            /\ UNCHANGED <<signalingStore, sent>>
       ELSE /\ signalingStore' = IcePush(signalingStore, r.user.partnerId,
                                         IceEntry(r.payload, r.id, now))
            /\ sent' = NoteIce(r.user.partnerId,
                            [candidate |-> r.payload, from |-> r.id, timestamp |-> now])
            /\ Respond(Ok("ice-candidate", r.id))
    /\ UNCHANGED <<users, now, requests>>

----------------------------------------------------------------------------
(* POST /api/webrtc/end *)

\* Line 220: the account lookup is awaited.
EndBegin(id) ==
    /\ Receive
    /\ \/ /\ Respond(Err("end", id, 500, "Server error"))
          /\ UNCHANGED inflight
       \/ /\ CanSuspend
          /\ Suspend([op |-> "end", id |-> id, payload |-> Absent, user |-> FindById(id)])
          /\ UNCHANGED <<res, drained>>
    /\ UNCHANGED <<users, signalingStore, now, sent>>

\* The end handler rejecting an unlinked caller the way the other three do.
EndResumeStrict(r) ==
    /\ r.op = "end"
    /\ Resume(r)
    /\ IF NoPartner(r.user)
       THEN /\ Respond(Err("end", r.id, 400, "No partner connected"))
            /\ UNCHANGED <<signalingStore, sent>>
       ELSE /\ signalingStore' = MapSet(signalingStore, SlotKey(r.user.partnerId),
                                        EndEntry(r.id, now))
            /\ sent' = NoteSignal(r.user.partnerId, Accepted("end", r))
            /\ Respond(Ok("end", r.id))
    /\ UNCHANGED <<users, now, requests>>

\* Lines 221-233: without a partner the handler answers success and writes
\* nothing; otherwise it writes the end entry.
EndResume(r) ==
    /\ r.op = "end"
    /\ Resume(r)
    /\ IF NoPartner(r.user)
       THEN /\ Respond(Ok("end", r.id))
            /\ UNCHANGED <<signalingStore, sent>>
       ELSE /\ signalingStore' = MapSet(signalingStore, SlotKey(r.user.partnerId),
                                        EndEntry(r.id, now))
            /\ sent' = NoteSignal(r.user.partnerId, Accepted("end", r))
            /\ Respond(Ok("end", r.id))
    /\ UNCHANGED <<users, now, requests>>

----------------------------------------------------------------------------
(* GET /api/webrtc/poll *)

\* The clearing that forgets the candidate queue.
PollClearSlotOnly(m, id) ==
    IF MapHas(m, SlotKey(id)) THEN MapDelete(m, SlotKey(id)) ELSE m

\* The clearing that removes the queue only together with a slot entry.
PollClearWithSignal(m, id) ==
    IF MapHas(m, SlotKey(id)) THEN MapDelete(MapDelete(m, SlotKey(id)), IceKey(id)) ELSE m

\* Lines 197-202: the store after the reads and the two conditional deletes.
PollClear(m, id) ==
    LET afterSignal == IF MapHas(m, SlotKey(id)) THEN MapDelete(m, SlotKey(id)) ELSE m
    IN  IF Len(GetIce(m, id)) > 0 THEN MapDelete(afterSignal, IceKey(id)) ELSE afterSignal

\* The body built from the store as it is after the clearing.
PollBodyAfterClear(m, id) ==
    [signal |-> GetSignal(PollClear(m, id), id), iceCandidates |-> GetIce(PollClear(m, id), id)]

\* Lines 204-207: the response body.
PollBody(m, id) == [signal |-> GetSignal(m, id), iceCandidates |-> GetIce(m, id)]

\* The poll that holds the request until something is stored for the caller.
PollWhenPending(id) ==
    /\ MapHas(signalingStore, SlotKey(id)) \/ MapHas(signalingStore, IceKey(id))
    /\ Receive
    /\ res' = [op |-> "poll", id |-> id, status |-> 200, body |-> PollBody(signalingStore, id)]
    /\ signalingStore' = PollClear(signalingStore, id)
    /\ drained' = sent[id]
    /\ sent' = [sent EXCEPT ![id] = AfterPoll]
    /\ UNCHANGED <<users, now, inflight>>

\* Lines 192-212: no await, the whole handler is one segment.
Poll(id) ==
    /\ Receive
    /\ res' = [op |-> "poll", id |-> id, status |-> 200, body |-> PollBody(signalingStore, id)]
    /\ signalingStore' = PollClear(signalingStore, id)
    /\ drained' = sent[id]
    /\ sent' = [sent EXCEPT ![id] = AfterPoll]
    /\ UNCHANGED <<users, now, inflight>>

----------------------------------------------------------------------------
(* POST /api/auth/link-partner (src/src/routes/authRoutes.js) *)

\* Invite codes a link request may carry.
InviteInputs == {"AAAA2222", "BBBB3333", "bbbb3333", "CCCC4444", "ZZZZ9999", Absent}

\* Lines 133-139: the payload check, then the lookup by invite code is
\* awaited.  A lookup that rejects resumes in the catch block.
LinkBegin(id, inviteCode) ==
    /\ Receive
    /\ \/ /\ inviteCode = Absent
          /\ Respond(Err("link-partner", id, 400, "Invite code required"))
          /\ UNCHANGED inflight
       \/ /\ inviteCode # Absent
          /\ Respond(Err("link-partner", id, 500, "Server error"))
          /\ UNCHANGED inflight
       \/ /\ inviteCode # Absent
          /\ CanSuspend
          /\ Suspend([op |-> "link-partner", at |-> "findOne", id |-> id,
                      partner |-> FindOneByInviteCode(ToUpperCase(inviteCode)),
                      user |-> NoUser, target |-> NoUser])
          /\ UNCHANGED <<res, drained>>
    /\ UNCHANGED <<users, signalingStore, now, sent>>

\* Lines 141-153: the three checks on the partner found, then the caller's
\* own record is awaited.
LinkFoundPartner(r) ==
    /\ r.op = "link-partner" /\ r.at = "findOne"
    /\ IF r.partner = NoUser
       THEN /\ Respond(Err("link-partner", r.id, 404, "Invalid invite code"))
            /\ Resume(r)
       ELSE IF r.partner._id = r.id
       THEN /\ Respond(Err("link-partner", r.id, 400, "Cannot link with yourself"))
            /\ Resume(r)
       ELSE IF r.partner.partnerId # Null
       THEN /\ Respond(Err("link-partner", r.id, 400, "Partner already linked"))
            /\ Resume(r)
       ELSE \/ /\ Respond(Err("link-partner", r.id, 500, "Server error"))
               /\ Resume(r)
            \/ /\ inflight' = (inflight (-) SetToBag({r}))
                                (+) SetToBag({[r EXCEPT !.at = "findById",
                                                        !.user = FindById(r.id)]})
               /\ UNCHANGED <<res, drained>>
    /\ UNCHANGED <<users, signalingStore, now, requests, sent>>

\* Lines 155-163: the check on the caller's record, the two assignments, and
\* user.save() is awaited.  A missing caller record makes `user.partnerId`
\* throw, a rejected save throws too: both end in the catch block.
LinkSaveUser(r) ==
    /\ r.op = "link-partner" /\ r.at = "findById"
    /\ IF r.user = NoUser
       THEN /\ Respond(Err("link-partner", r.id, 500, "Server error"))
            /\ Resume(r)
            /\ UNCHANGED users
       ELSE IF r.user.partnerId # Null
       THEN /\ Respond(Err("link-partner", r.id, 400, "You are already linked"))
            /\ Resume(r)
            /\ UNCHANGED users
       ELSE \/ /\ Respond(Err("link-partner", r.id, 500, "Server error"))
               /\ Resume(r)
               /\ UNCHANGED users
            \/ /\ users' = SavePartnerId(r.id, r.partner._id)
               /\ inflight' = (inflight (-) SetToBag({r}))
                                (+) SetToBag({[r EXCEPT !.at = "saveUser"]})
               /\ UNCHANGED <<res, drained>>
    /\ UNCHANGED <<signalingStore, now, requests, sent>>

\* Line 164: partner.save() is awaited.
LinkSavePartner(r) ==
    /\ r.op = "link-partner" /\ r.at = "saveUser"
    /\ \/ /\ Respond(Err("link-partner", r.id, 500, "Server error"))
          /\ Resume(r)
          /\ UNCHANGED users
       \/ /\ users' = SavePartnerId(r.partner._id, r.id)
          /\ inflight' = (inflight (-) SetToBag({r}))
                           (+) SetToBag({[r EXCEPT !.at = "savePartner"]})
          /\ UNCHANGED <<res, drained>>
    /\ UNCHANGED <<signalingStore, now, requests, sent>>

\* The response of the route whose handler called sendToUser, once
\* sendToUser has returned: authRoutes.js lines 174-177, part_001 line 76.
Notified(r) ==
    IF r.op = "link-partner"
    THEN [op |-> "link-partner", id |-> r.id, status |-> 200,
          body |-> [message |-> "Successfully linked with partner",
                    partnerId |-> r.partner._id]]
    ELSE Ok("send-signal", r.id)

\* The response of the route's catch block when sendToUser has thrown:
\* authRoutes.js lines 178-181, part_001 lines 77-80.
NotifyThrew(r) ==
    IF r.op = "link-partner"
    THEN Err("link-partner", r.id, 500, "Server error")
    ELSE Err("send-signal", r.id, 500, "Failed to send notification")

\* Lines 166-172: sendToUser(partner._id, ...) is called and awaited; its
\* first step is the lookup of the target (NotificationService.js line 23).
\* A lookup that rejects is caught inside sendToUser, which returns false.
LinkNotify(r) ==
    /\ r.op = "link-partner" /\ r.at = "savePartner"
    /\ \/ /\ Respond(Notified(r))
          /\ Resume(r)
       \/ /\ Await(r, [r EXCEPT !.at = "pushFind", !.target = FindById(r.partner._id)])
          /\ UNCHANGED <<res, drained>>
    /\ UNCHANGED <<users, signalingStore, now, requests, sent>>

----------------------------------------------------------------------------
(* NotificationService.sendToUser (src/src/services/NotificationService.js, *)
(* lines 21-41), running inside the handler that awaits it.                *)

\* The routes whose handlers call sendToUser.
Notifying == {"link-partner", "send-signal"}

\* How webpush.sendNotification ends: resolved, rejected with status 410 or
\* 404, rejected with anything else.
PushOutcomes == {"delivered", "expired", "failed"}

\* findByIdAndUpdate(userId, { $unset: { pushSubscription: 1 } })
UnsetPushSubscription(id) ==
    IF users[id] = NoUser THEN users ELSE [users EXCEPT ![id].pushSubscription = Null]

\* Lines 24-31: without a record or a subscription sendToUser returns false,
\* else webpush.sendNotification is awaited.
SendToUserFound(r) ==
    /\ r.op \in Notifying /\ r.at = "pushFind"
    /\ IF r.target = NoUser \/ r.target.pushSubscription = Null
       THEN /\ Respond(Notified(r))
            /\ Resume(r)
       ELSE /\ Await(r, [r EXCEPT !.at = "pushSend"])
            /\ UNCHANGED <<res, drained>>
    /\ UNCHANGED <<users, signalingStore, now, requests, sent>>

\* Lines 32-39: delivered, sendToUser returns true; rejected, the catch block
\* returns false, and for status 410 or 404 it first awaits the removal of
\* the subscription.  The removal is awaited inside the catch block: when it
\* rejects, sendToUser itself rejects and the route's catch block answers.
SendToUserSent(r, outcome) ==
    /\ r.op \in Notifying /\ r.at = "pushSend"
    /\ \/ /\ outcome \in {"delivered", "failed"}
          /\ Respond(Notified(r))
          /\ Resume(r)
          /\ UNCHANGED users
       \/ /\ outcome = "expired"
          /\ Respond(NotifyThrew(r))
          /\ Resume(r)
          /\ UNCHANGED users
       \/ /\ outcome = "expired"
          /\ users' = UnsetPushSubscription(r.target._id)
          /\ Await(r, [r EXCEPT !.at = "pushUnset"])
          /\ UNCHANGED <<res, drained>>
    /\ UNCHANGED <<signalingStore, now, requests, sent>>

\* Line 39: the removal resolved, sendToUser returns false.
SendToUserRemoved(r) ==
    /\ r.op \in Notifying /\ r.at = "pushUnset"
    /\ Respond(Notified(r))
    /\ Resume(r)
    /\ UNCHANGED <<users, signalingStore, now, requests, sent>>

----------------------------------------------------------------------------
(* POST /api/notifications/send-signal (src/unnamed/part_001, lines 57-81) *)

\* Lines 59-62: the caller's record is awaited.
SendSignalBegin(id) ==
    /\ Receive
    /\ \/ /\ Respond(Err("send-signal", id, 500, "Failed to send notification"))
          /\ UNCHANGED inflight
       \/ /\ CanSuspend
          /\ Suspend([op |-> "send-signal", at |-> "findById", id |-> id,
                      user |-> FindById(id), target |-> NoUser])
          /\ UNCHANGED <<res, drained>>
    /\ UNCHANGED <<users, signalingStore, now, sent>>

\* Lines 63-74: the partner check, then sendToUser(user.partnerId, ...) is
\* called and awaited; a target lookup that rejects is caught inside it.
SendSignalNotify(r) ==
    /\ r.op = "send-signal" /\ r.at = "findById"
    /\ IF NoPartner(r.user)
       THEN /\ Respond(Err("send-signal", r.id, 400, "No partner connected"))
            /\ Resume(r)
       ELSE \/ /\ Respond(Notified(r))
               /\ Resume(r)
            \/ /\ Await(r, [r EXCEPT !.at = "pushFind",
                                      !.target = FindById(r.user.partnerId)])
               /\ UNCHANGED <<res, drained>>
    /\ UNCHANGED <<users, signalingStore, now, requests, sent>>

----------------------------------------------------------------------------

\* The account store the relay runs against: u1 and u2 linked to each other,
\* u3 registered and unlinked, or u3 holding a token for a record that no
\* longer exists.
Pairings ==
    { [u1 |-> UserDoc("u1", "u2"), u2 |-> UserDoc("u2", "u1"), u3 |-> UserDoc("u3", Null)],
      [u1 |-> UserDoc("u1", "u2"), u2 |-> UserDoc("u2", "u1"), u3 |-> NoUser] }

Init ==
    /\ users \in Pairings
    /\ signalingStore = EmptyMap
    /\ now = 0
    /\ inflight = EmptyBag
    /\ res = NoResponse
    /\ requests = 0
    /\ sent = [id \in Ids |-> NothingSent]
    /\ drained = NothingSent

Next ==
    \/ \E id \in Ids, sdp \in Sdps \cup {Absent} : OfferBegin(id, sdp)
    \/ \E r \in Suspended : OfferResume(r)
    \/ \E id \in Ids, sdp \in Sdps \cup {Absent} : AnswerBegin(id, sdp)
    \/ \E r \in Suspended : AnswerResume(r)
    \/ \E id \in Ids, candidate \in Candidates : IceBegin(id, candidate)
    \/ \E r \in Suspended : IceResume(r)
    \/ \E id \in Ids : EndBegin(id)
    \/ \E r \in Suspended : EndResume(r)
    \/ \E id \in Ids : Poll(id)

Spec == Init /\ [][Next]_vars

\* Candidate sends, with or without a fragment in the body, and polls.
NextCandidates ==
    \/ \E id \in Ids, candidate \in Candidates \cup {Absent} : IceBegin(id, candidate)
    \/ \E r \in Suspended : IceResume(r)
    \/ \E id \in Ids : Poll(id)

SpecCandidates == Init /\ [][NextCandidates]_vars

\* The relay with one payload per route.
NextLive ==
    \/ \E id \in Ids : OfferBegin(id, "s1")
    \/ \E r \in Suspended : OfferResume(r)
    \/ \E id \in Ids : AnswerBegin(id, "s1")
    \/ \E r \in Suspended : AnswerResume(r)
    \/ \E id \in Ids : IceBegin(id, "c1")
    \/ \E r \in Suspended : IceResume(r)
    \/ \E id \in Ids : EndBegin(id)
    \/ \E r \in Suspended : EndResume(r)
    \/ \E id \in Ids : Poll(id)

\* The continuation of a send handler after `await User.findById`: the event
\* loop runs it once the lookup has settled.
HandlerStep ==
    \E r \in Suspended : OfferResume(r) \/ AnswerResume(r) \/ IceResume(r) \/ EndResume(r)

\* Every settled lookup gets its continuation run; nothing is assumed about
\* which requests arrive, polls included.
SpecLive == Init /\ [][NextLive]_vars /\ WF_vars(HandlerStep)

----------------------------------------------------------------------------
(* Linking on its own: accounts as registration leaves them. *)

\* Every account registered and unlinked, or u3 holding a token for a record
\* that no longer exists.
Unlinked ==
    { [id \in Ids |-> UserDoc(id, Null)],
      [id \in Ids |-> IF id = "u3" THEN NoUser ELSE UserDoc(id, Null)] }

InitLink ==
    /\ users \in Unlinked
    /\ signalingStore = EmptyMap
    /\ now = 0
    /\ inflight = EmptyBag
    /\ res = NoResponse
    /\ requests = 0
    /\ sent = [id \in Ids |-> NothingSent]
    /\ drained = NothingSent

NextLink ==
    \/ \E id \in Ids, inviteCode \in InviteInputs : LinkBegin(id, inviteCode)
    \/ \E r \in Suspended : LinkFoundPartner(r)
    \/ \E r \in Suspended : LinkSaveUser(r)
    \/ \E r \in Suspended : LinkSavePartner(r)
    \/ \E r \in Suspended : LinkNotify(r)
    \/ \E r \in Suspended : SendToUserFound(r)
    \/ \E r \in Suspended, outcome \in PushOutcomes : SendToUserSent(r, outcome)
    \/ \E r \in Suspended : SendToUserRemoved(r)

SpecLink == InitLink /\ [][NextLink]_vars

\* Link requests interleaved with offers, candidate sends and polls.
NextMailbox ==
    \/ \E id \in Ids, inviteCode \in {"AAAA2222", "BBBB3333"} : LinkBegin(id, inviteCode)
    \/ \E r \in Suspended : LinkFoundPartner(r)
    \/ \E r \in Suspended : LinkSaveUser(r)
    \/ \E r \in Suspended : LinkSavePartner(r)
    \/ \E r \in Suspended : LinkNotify(r)
    \/ \E r \in Suspended : SendToUserFound(r)
    \/ \E r \in Suspended, outcome \in PushOutcomes : SendToUserSent(r, outcome)
    \/ \E r \in Suspended : SendToUserRemoved(r)
    \/ \E id \in Ids : OfferBegin(id, "s1")
    \/ \E r \in Suspended : OfferResume(r)
    \/ \E id \in Ids : IceBegin(id, "c1")
    \/ \E r \in Suspended : IceResume(r)
    \/ \E id \in Ids : Poll(id)

SpecMailbox == InitLink /\ [][NextMailbox]_vars

----------------------------------------------------------------------------
(* The two routes that push: linking and send-signal. *)

InitPush ==
    /\ users \in Unlinked \cup Pairings
    /\ signalingStore = EmptyMap
    /\ now = 0
    /\ inflight = EmptyBag
    /\ res = NoResponse
    /\ requests = 0
    /\ sent = [id \in Ids |-> NothingSent]
    /\ drained = NothingSent

NextPush ==
    \/ \E id \in Ids, inviteCode \in {"AAAA2222", "BBBB3333"} : LinkBegin(id, inviteCode)
    \/ \E r \in Suspended : LinkFoundPartner(r)
    \/ \E r \in Suspended : LinkSaveUser(r)
    \/ \E r \in Suspended : LinkSavePartner(r)
    \/ \E r \in Suspended : LinkNotify(r)
    \/ \E id \in Ids : SendSignalBegin(id)
    \/ \E r \in Suspended : SendSignalNotify(r)
    \/ \E r \in Suspended : SendToUserFound(r)
    \/ \E r \in Suspended, outcome \in PushOutcomes : SendToUserSent(r, outcome)
    \/ \E r \in Suspended : SendToUserRemoved(r)

SpecPush == InitPush /\ [][NextPush]_vars

----------------------------------------------------------------------------
(* Presence (src/src/routes/authRoutes.js, lines 59-125 and 188-265).      *)
(* The clock counts milliseconds from the instant the run starts.          *)

\* 5 * 60 * 1000 of line 201.
FiveMinutes == 5 * 60 * 1000

\* 5 * 1000 of line 205.
FiveSeconds == 5 * 1000

\* The instants at which the server is observed: the start, and the last
\* millisecond before and the first at each of the two thresholds.
Instants == {0, FiveSeconds - 1, FiveSeconds, FiveMinutes - 1, FiveMinutes}

\* The clock that also sweeps slot entries older than five minutes out of
\* the store.
TickSweep(t) ==
    /\ t > now
    /\ now' = t
    /\ signalingStore' =
          [k \in {k \in DOMAIN signalingStore :
                     k[1] = "ice" \/ t - signalingStore[k].timestamp < FiveMinutes}
             |-> signalingStore[k]]
    /\ UNCHANGED <<users, inflight, res, requests, sent, drained>>

\* Time passes: Date.now() moves to a later instant.
Tick(t) ==
    /\ t > now
    /\ now' = t
    /\ UNCHANGED <<users, signalingStore, inflight, res, requests, sent, drained>>

\* user.lastActiveAt = new Date(); user.isOnline = true; user.save(), and
\* findByIdAndUpdate(id, { lastActiveAt: new Date(), isOnline: true }): the
\* two paths are written, on a missing record the update matches nothing.
TouchActivity(id, t) ==
    IF users[id] = NoUser THEN users
    ELSE [users EXCEPT ![id].lastActiveAt = t, ![id].isOnline = TRUE]

\* await User.findOne({ publicId }): an account's public id is rendered by
\* its identity, "nobody" is a public id no account has.
FindOneByPublicId(publicId) == IF publicId \in Ids THEN users[publicId] ELSE NoUser

\* Lines 61-67: the payload check, then the lookup by public id is awaited.
LoginBegin(publicId) ==
    /\ Receive
    /\ \/ /\ publicId = Absent
          /\ Respond(Err("login", Null, 400, "Public ID required"))
          /\ UNCHANGED inflight
       \/ /\ publicId # Absent
          /\ Respond(Err("login", Null, 500, "Server error"))
          /\ UNCHANGED inflight
       \/ /\ publicId # Absent
          /\ CanSuspend
          /\ Suspend([op |-> "login", at |-> "findOne", id |-> Null,
                      user |-> FindOneByPublicId(publicId)])
          /\ UNCHANGED <<res, drained>>
    /\ UNCHANGED <<users, signalingStore, now, sent>>

\* Lines 69-76: 404 without a record, else the touch and user.save() awaited.
LoginSave(r) ==
    /\ r.op = "login" /\ r.at = "findOne"
    /\ IF r.user = NoUser
       THEN /\ Respond(Err("login", Null, 404, "User not found"))
            /\ Resume(r)
            /\ UNCHANGED users
       ELSE \/ /\ Respond(Err("login", Null, 500, "Server error"))
               /\ Resume(r)
               /\ UNCHANGED users
            \/ /\ users' = TouchActivity(r.user._id, now)
               /\ Await(r, [r EXCEPT !.at = "save", !.id = r.user._id])
               /\ UNCHANGED <<res, drained>>
    /\ UNCHANGED <<signalingStore, now, requests, sent>>

\* Lines 78-90: the token and the account as it was read.
LoginRespond(r) ==
    /\ r.op = "login" /\ r.at = "save"
    /\ Resume(r)
    /\ Respond([op |-> "login", id |-> r.id, status |-> 200,
                body |-> [token |-> GenerateToken(r.id), partnerId |-> r.user.partnerId]])
    /\ UNCHANGED <<users, signalingStore, now, requests, sent>>

\* Line 103: the account lookup is awaited.
MeBegin(id) ==
    /\ Receive
    /\ \/ /\ Respond(Err("me", id, 500, "Server error"))
          /\ UNCHANGED inflight
       \/ /\ CanSuspend
          /\ Suspend([op |-> "me", at |-> "findById", id |-> id, user |-> FindById(id)])
          /\ UNCHANGED <<res, drained>>
    /\ UNCHANGED <<users, signalingStore, now, sent>>

\* Lines 105-112: 404 without a record, else the touch and user.save() awaited.
MeSave(r) ==
    /\ r.op = "me" /\ r.at = "findById"
    /\ IF r.user = NoUser
       THEN /\ Respond(Err("me", r.id, 404, "User not found"))
            /\ Resume(r)
            /\ UNCHANGED users
       ELSE \/ /\ Respond(Err("me", r.id, 500, "Server error"))
               /\ Resume(r)
               /\ UNCHANGED users
            \/ /\ users' = TouchActivity(r.id, now)
               /\ Await(r, [r EXCEPT !.at = "save"])
               /\ UNCHANGED <<res, drained>>
    /\ UNCHANGED <<signalingStore, now, requests, sent>>

\* Lines 114-120: the account as it was read.
MeRespond(r) ==
    /\ r.op = "me" /\ r.at = "save"
    /\ Resume(r)
    /\ Respond([op |-> "me", id |-> r.id, status |-> 200,
                body |-> [id |-> r.user._id, partnerId |-> r.user.partnerId,
                          inviteCode |-> r.user.inviteCode]])
    /\ UNCHANGED <<users, signalingStore, now, requests, sent>>

\* Lines 240-243: findByIdAndUpdate is awaited; one that rejects resumes in
\* the catch block.
HeartbeatBegin(id) ==
    /\ Receive
    /\ \/ /\ Respond(Err("heartbeat", id, 500, "Server error"))
          /\ UNCHANGED <<inflight, users>>
       \/ /\ CanSuspend
          /\ users' = TouchActivity(id, now)
          /\ Suspend([op |-> "heartbeat", at |-> "update", id |-> id])
          /\ UNCHANGED <<res, drained>>
    /\ UNCHANGED <<signalingStore, now, sent>>

\* Line 244.
HeartbeatRespond(r) ==
    /\ r.op = "heartbeat"
    /\ Resume(r)
    /\ Respond([op |-> "heartbeat", id |-> r.id, status |-> 200, body |-> [ok |-> TRUE]])
    /\ UNCHANGED <<users, signalingStore, now, requests, sent>>

\* The logout that also forgets when the account was last active.
SetOfflineAndForget(id) ==
    IF users[id] = NoUser THEN users
    ELSE [users EXCEPT ![id].isOnline = FALSE, ![id].lastActiveAt = 0]

\* findByIdAndUpdate(id, { isOnline: false })
SetOffline(id) ==
    IF users[id] = NoUser THEN users ELSE [users EXCEPT ![id].isOnline = FALSE]

\* Line 226: findByIdAndUpdate is awaited.
LogoutBegin(id) ==
    /\ Receive
    /\ \/ /\ Respond(Err("logout", id, 500, "Server error"))
          /\ UNCHANGED <<inflight, users>>
       \/ /\ CanSuspend
          /\ users' = SetOffline(id)
          /\ Suspend([op |-> "logout", at |-> "update", id |-> id])
          /\ UNCHANGED <<res, drained>>
    /\ UNCHANGED <<signalingStore, now, sent>>

\* Line 227.
LogoutRespond(r) ==
    /\ r.op = "logout"
    /\ Resume(r)
    /\ Respond([op |-> "logout", id |-> r.id, status |-> 200,
                body |-> [message |-> "Logged out"]])
    /\ UNCHANGED <<users, signalingStore, now, requests, sent>>

\* The values the isTyping field of a typing request may carry: the two
\* booleans, a truthy value that is no boolean, and none.
TypingFlags == {"true", "false", "yes", Absent}

\* `isTyping === true`
IsTrue(flag) == flag = "true"

\* `isTyping ? ... : ...`
Truthy(flag) == flag \in {"true", "yes"}

\* findByIdAndUpdate(id, { isTyping: isTyping === true,
\*                         typingAt: isTyping ? new Date() : null })
SetTyping(id, flag, t) ==
    IF users[id] = NoUser THEN users
    ELSE [users EXCEPT ![id].isTyping = IsTrue(flag),
                       ![id].typingAt = IF Truthy(flag) THEN t ELSE NoDate]

\* Lines 256-260: findByIdAndUpdate is awaited.
TypingBegin(id, flag) ==
    /\ Receive
    /\ \/ /\ Respond(Err("typing", id, 500, "Server error"))
          /\ UNCHANGED <<inflight, users>>
       \/ /\ CanSuspend
          /\ users' = SetTyping(id, flag, now)
          /\ Suspend([op |-> "typing", at |-> "update", id |-> id, payload |-> flag])
          /\ UNCHANGED <<res, drained>>
    /\ UNCHANGED <<signalingStore, now, sent>>

\* Line 261.
TypingRespond(r) ==
    /\ r.op = "typing"
    /\ Resume(r)
    /\ Respond([op |-> "typing", id |-> r.id, status |-> 200, body |-> [ok |-> TRUE]])
    /\ UNCHANGED <<users, signalingStore, now, requests, sent>>

\* `date > bound` on a stored date: null converts to 0, the epoch, which no
\* threshold of a running server precedes.
After(date, bound) == date # NoDate /\ date > bound

\* The online flag taken as stored, without the recency test.
IsOnlineStored(partner, t) == partner.isOnline

\* Lines 201-202 and 210: partner.isOnline && isRecentlyActive.
IsOnlineDerived(partner, t) ==
    partner.isOnline /\ After(partner.lastActiveAt, t - FiveMinutes)

\* The typing flag taken as stored, without the recency test.
IsTypingStored(partner, t) == partner.isTyping

\* Lines 205-206: partner.isTyping && partner.typingAt > typingTimeout.
IsTypingDerived(partner, t) ==
    partner.isTyping /\ After(partner.typingAt, t - FiveSeconds)

\* The body that reports on the caller's own record.
StatusBodyOfCaller(r, t) ==
    [connected |-> TRUE,
     isOnline |-> IsOnlineDerived(r.user, t),
     lastActive |-> r.user.lastActiveAt,
     isTyping |-> IsTypingDerived(r.user, t)]

\* Lines 208-213: the response body, derived from the partner as it was read.
StatusBody(r, t) ==
    [connected |-> TRUE,
     isOnline |-> IsOnlineDerived(r.partner, t),
     lastActive |-> r.partner.lastActiveAt,
     isTyping |-> IsTypingDerived(r.partner, t)]

\* Line 192, and the other paths of lines 194 and 199.
NotConnected(id) ==
    [op |-> "partner-status", id |-> id, status |-> 200, body |-> [connected |-> FALSE]]

\* Line 190: the caller's record is awaited.
StatusBegin(id) ==
    /\ Receive
    /\ \/ /\ Respond(Err("partner-status", id, 500, "Server error"))
          /\ UNCHANGED inflight
       \/ /\ CanSuspend
          /\ Suspend([op |-> "partner-status", at |-> "findById", id |-> id,
                      user |-> FindById(id), partner |-> NoUser])
          /\ UNCHANGED <<res, drained>>
    /\ UNCHANGED <<users, signalingStore, now, sent>>

\* Lines 191-196: connected false without a partner, else the partner's
\* record is awaited.
StatusFoundUser(r) ==
    /\ r.op = "partner-status" /\ r.at = "findById"
    /\ IF NoPartner(r.user)
       THEN /\ Respond(NotConnected(r.id))
            /\ Resume(r)
       ELSE \/ /\ Respond(Err("partner-status", r.id, 500, "Server error"))
               /\ Resume(r)
            \/ /\ Await(r, [r EXCEPT !.at = "findPartner",
                                      !.partner = FindById(r.user.partnerId)])
               /\ UNCHANGED <<res, drained>>
    /\ UNCHANGED <<users, signalingStore, now, requests, sent>>

\* Lines 197-213: connected false without the partner's record, else the
\* derived status at the time of the response.
StatusRespond(r) ==
    /\ r.op = "partner-status" /\ r.at = "findPartner"
    /\ Resume(r)
    /\ IF r.partner = NoUser
       THEN Respond(NotConnected(r.id))
       ELSE Respond([op |-> "partner-status", id |-> r.id, status |-> 200,
                     body |-> StatusBody(r, now)])
    /\ UNCHANGED <<users, signalingStore, now, requests, sent>>

\* The accounts presence runs against.  u1 and u2 are linked to each other
\* and u1 has called /typing with true at instant 0; u3 is left pointing at
\* u1 by a link request that stopped between its two saves (C8).  Or u2's
\* record no longer exists and u3 has no partner.
PresencePairings ==
    { [u1 |-> [UserDoc("u1", "u2") EXCEPT !.isTyping = TRUE, !.typingAt = 0],
       u2 |-> UserDoc("u2", "u1"),
       u3 |-> UserDoc("u3", "u1")],
      [u1 |-> UserDoc("u1", "u2"), u2 |-> NoUser, u3 |-> UserDoc("u3", Null)] }

InitPresence ==
    /\ users \in PresencePairings
    /\ signalingStore = EmptyMap
    /\ now = 0
    /\ inflight = EmptyBag
    /\ res = NoResponse
    /\ requests = 0
    /\ sent = [id \in Ids |-> NothingSent]
    /\ drained = NothingSent

\* Activity touches and presence reads while time passes.
NextTouch ==
    \/ \E t \in Instants : Tick(t)
    \/ \E publicId \in {"u1", "nobody", Absent} : LoginBegin(publicId)
    \/ \E r \in Suspended : LoginSave(r)
    \/ \E r \in Suspended : LoginRespond(r)
    \/ \E id \in {"u1", "u3"} : MeBegin(id)
    \/ \E r \in Suspended : MeSave(r)
    \/ \E r \in Suspended : MeRespond(r)
    \/ \E id \in {"u1", "u2"} : HeartbeatBegin(id)
    \/ \E r \in Suspended : HeartbeatRespond(r)
    \/ \E id \in {"u2", "u3"} : StatusBegin(id)
    \/ \E r \in Suspended : StatusFoundUser(r)
    \/ \E r \in Suspended : StatusRespond(r)

SpecTouch == InitPresence /\ [][NextTouch]_vars

\* Typing calls and presence reads while time passes and u1 sends heartbeats.
NextTyping ==
    \/ \E t \in Instants : Tick(t)
    \/ HeartbeatBegin("u1")
    \/ \E r \in Suspended : HeartbeatRespond(r)
    \/ \E id \in {"u1", "u2"}, flag \in TypingFlags : TypingBegin(id, flag)
    \/ \E r \in Suspended : TypingRespond(r)
    \/ \E id \in Ids : StatusBegin(id)
    \/ \E r \in Suspended : StatusFoundUser(r)
    \/ \E r \in Suspended : StatusRespond(r)

SpecTyping == InitPresence /\ [][NextTyping]_vars

\* Heartbeats, logouts and presence reads while time passes.
NextPresence ==
    \/ \E t \in Instants : Tick(t)
    \/ \E id \in Ids : HeartbeatBegin(id)
    \/ \E r \in Suspended : HeartbeatRespond(r)
    \/ \E id \in Ids : LogoutBegin(id)
    \/ \E r \in Suspended : LogoutRespond(r)
    \/ \E id \in Ids : StatusBegin(id)
    \/ \E r \in Suspended : StatusFoundUser(r)
    \/ \E r \in Suspended : StatusRespond(r)

SpecPresence == InitPresence /\ [][NextPresence]_vars

----------------------------------------------------------------------------
(* The relay while time passes and presence changes. *)

NextExpiry ==
    \/ \E t \in Instants : Tick(t)
    \/ \E id \in Ids : OfferBegin(id, "s1")
    \/ \E r \in Suspended : OfferResume(r)
    \/ \E id \in Ids : IceBegin(id, "c1")
    \/ \E r \in Suspended : IceResume(r)
    \/ \E id \in Ids : Poll(id)
    \/ \E id \in Ids : HeartbeatBegin(id)
    \/ \E r \in Suspended : HeartbeatRespond(r)
    \/ \E id \in Ids : LogoutBegin(id)
    \/ \E r \in Suspended : LogoutRespond(r)

SpecExpiry == Init /\ [][NextExpiry]_vars

\* u1 and u2 linked, u3 registered.
InitSeparate ==
    /\ users = [u1 |-> UserDoc("u1", "u2"), u2 |-> UserDoc("u2", "u1"),
                u3 |-> UserDoc("u3", Null)]
    /\ signalingStore = EmptyMap
    /\ now = 0
    /\ inflight = EmptyBag
    /\ res = NoResponse
    /\ requests = 0
    /\ sent = [id \in Ids |-> NothingSent]
    /\ drained = NothingSent

\* Every relay route and every presence route, called by u1, with polls by
\* u1 and u2 and presence reads by u2, while time passes.
NextSeparate ==
    \/ \E t \in {FiveMinutes - 1, FiveMinutes} : Tick(t)
    \/ OfferBegin("u1", "s1")
    \/ \E r \in Suspended : OfferResume(r)
    \/ AnswerBegin("u1", "s1")
    \/ \E r \in Suspended : AnswerResume(r)
    \/ IceBegin("u1", "c1")
    \/ \E r \in Suspended : IceResume(r)
    \/ EndBegin("u1")
    \/ \E r \in Suspended : EndResume(r)
    \/ \E id \in {"u1", "u2"} : Poll(id)
    \/ StatusBegin("u2")
    \/ \E r \in Suspended : StatusFoundUser(r)
    \/ \E r \in Suspended : StatusRespond(r)
    \/ LoginBegin("u1")
    \/ \E r \in Suspended : LoginSave(r)
    \/ \E r \in Suspended : LoginRespond(r)
    \/ MeBegin("u1")
    \/ \E r \in Suspended : MeSave(r)
    \/ \E r \in Suspended : MeRespond(r)
    \/ HeartbeatBegin("u1")
    \/ \E r \in Suspended : HeartbeatRespond(r)
    \/ LogoutBegin("u1")
    \/ \E r \in Suspended : LogoutRespond(r)
    \/ TypingBegin("u1", "true")
    \/ \E r \in Suspended : TypingRespond(r)

SpecSeparate == InitSeparate /\ [][NextSeparate]_vars

----------------------------------------------------------------------------
(* The protected routes behind the auth middleware (src/unnamed/part_000,  *)
(* lines 12-26): router.post(path, auth, handler).                         *)

\* res.status(401).json({ error }): the handler is never called.
Deny(op, error) ==
    /\ Receive
    /\ Respond(Err(op, Null, 401, error))
    /\ UNCHANGED <<users, signalingStore, now, inflight, sent>>

\* Lines 12-26: no token, a token that does not verify, or req.user set
\* from the token and next().
Auth(op, token, next) ==
    IF token = NoToken THEN Deny(op, "No token, authorization denied")
    ELSE IF ~JwtVerify(token) THEN Deny(op, "Token is not valid")
    ELSE next

\* req.user.id as the middleware leaves it for the handler.
ReqUserId(token) == token.user.id

\* The tokens requests carry: the one u2 got at login, a token naming u3
\* that the server never signed, and none.
Tokens == {GenerateToken("u2"), Forged("u3"), NoToken}

\* u1 and u2 linked or not yet linked, u3 registered.
InitAuth ==
    /\ users \in {[u1 |-> UserDoc("u1", "u2"), u2 |-> UserDoc("u2", "u1"),
                    u3 |-> UserDoc("u3", Null)],
                   [id \in Ids |-> UserDoc(id, Null)]}
    /\ signalingStore = EmptyMap
    /\ now = 0
    /\ inflight = EmptyBag
    /\ res = NoResponse
    /\ requests = 0
    /\ sent = [id \in Ids |-> NothingSent]
    /\ drained = NothingSent

NextAuth ==
    \/ \E token \in Tokens, sdp \in {"s1", Absent} :
           Auth("offer", token, OfferBegin(ReqUserId(token), sdp))
    \/ \E r \in Suspended : OfferResume(r)
    \/ \E token \in Tokens, sdp \in {"s1", Absent} :
           Auth("answer", token, AnswerBegin(ReqUserId(token), sdp))
    \/ \E r \in Suspended : AnswerResume(r)
    \/ \E token \in Tokens : Auth("ice-candidate", token, IceBegin(ReqUserId(token), "c1"))
    \/ \E r \in Suspended : IceResume(r)
    \/ \E token \in Tokens : Auth("end", token, EndBegin(ReqUserId(token)))
    \/ \E r \in Suspended : EndResume(r)
    \/ \E token \in Tokens : Auth("poll", token, Poll(ReqUserId(token)))
    \/ \E token \in Tokens : Auth("me", token, MeBegin(ReqUserId(token)))
    \/ \E r \in Suspended : MeSave(r)
    \/ \E r \in Suspended : MeRespond(r)
    \/ \E token \in Tokens : Auth("heartbeat", token, HeartbeatBegin(ReqUserId(token)))
    \/ \E r \in Suspended : HeartbeatRespond(r)
    \/ \E token \in Tokens : Auth("logout", token, LogoutBegin(ReqUserId(token)))
    \/ \E r \in Suspended : LogoutRespond(r)
    \/ \E token \in Tokens : Auth("typing", token, TypingBegin(ReqUserId(token), "true"))
    \/ \E r \in Suspended : TypingRespond(r)
    \/ \E token \in Tokens : Auth("partner-status", token, StatusBegin(ReqUserId(token)))
    \/ \E r \in Suspended : StatusFoundUser(r)
    \/ \E r \in Suspended : StatusRespond(r)
    \/ \E token \in Tokens, inviteCode \in {"AAAA2222", Absent} :
           Auth("link-partner", token, LinkBegin(ReqUserId(token), inviteCode))
    \/ \E r \in Suspended : LinkFoundPartner(r)
    \/ \E r \in Suspended : LinkSaveUser(r)
    \/ \E r \in Suspended : LinkSavePartner(r)
    \/ \E r \in Suspended : LinkNotify(r)
    \/ \E token \in Tokens : Auth("send-signal", token, SendSignalBegin(ReqUserId(token)))
    \/ \E r \in Suspended : SendSignalNotify(r)
    \/ \E r \in Suspended : SendToUserFound(r)
    \/ \E r \in Suspended, outcome \in PushOutcomes : SendToUserSent(r, outcome)
    \/ \E r \in Suspended : SendToUserRemoved(r)

SpecAuth == InitAuth /\ [][NextAuth]_vars

----------------------------------------------------------------------------
(* Properties of the relay, checked under Spec. *)

\* The partner pointer stored for an identity, null when it has no record.
PartnerOf(id) == IF users[id] = NoUser THEN Null ELSE users[id].partnerId

\* a and b are each other's partner.
Mutual(a, b) == a # b /\ PartnerOf(a) = b /\ PartnerOf(b) = a

\* The identity has no partner: its pointer is null or its record is missing.
Unpaired(id) == PartnerOf(id) = Null

\* The most recent response answers a poll by b.
PolledBy(b) == res.op = "poll" /\ res.id = b

\* This step is the poll handler run for b.
PollStep(b) ==
    /\ requests' = requests + 1
    /\ inflight' = inflight
    /\ res'.op = "poll" /\ res'.id = b

\* This step resumes the suspended handler r and runs it to its response.
Resumed(r) == inflight' = inflight (-) SetToBag({r})

\* C1: between mutual partners A and B, when A's offer is the last slot write
\* accepted for B, B's poll returns exactly that offer (its sdp, from = A) and
\* removes it from the store; a poll by B with nothing accepted since its
\* previous poll returns signal = null.
C1_OfferThenPoll ==
    \A a \in Ids, b \in Ids :
        (Mutual(a, b) /\ PolledBy(b)) =>
            /\ (drained.signal.type = "offer" /\ drained.signal.from = a) =>
                   /\ res.body.signal.type = "offer"
                   /\ res.body.signal.sdp = drained.signal.sdp
                   /\ res.body.signal.from = a
                   /\ ~MapHas(signalingStore, SlotKey(b))
            /\ drained.polled => res.body.signal = NullSignal

\* u2 has polled and got the offer s2 of its partner u1.
C1_Witness ==
    /\ Mutual("u1", "u2")
    /\ PolledBy("u2")
    /\ res.body.signal.type = "offer"
    /\ res.body.signal.sdp = "s2"
    /\ res.body.signal.from = "u1"

\* C2: a recipient's slot holds exactly the entry of the last slot write
\* accepted for it since its last poll, whatever was accepted before; the
\* poll returns that one entry and leaves the slot empty, so an overwritten
\* entry is returned by no poll.
C2_LastWriteWins ==
    \A r \in Ids :
        /\ GetSignal(signalingStore, r) = sent[r].signal
        /\ PolledBy(r) =>
               /\ res.body.signal = drained.signal
               /\ GetSignal(signalingStore, r) = NullSignal

\* A poll has returned an entry that had replaced an earlier unpolled one.
C2_Witness ==
    \E r \in Ids :
        /\ PolledBy(r)
        /\ drained.replaced
        /\ res.body.signal # NullSignal

\* C3: a poll returns the fragments accepted for its caller since the caller's
\* last poll, all of them, in the order their appends ran, and removes the
\* queue; a poll with nothing accepted since the previous one returns none.
C3_CandidatesInOrder ==
    \A r \in Ids :
        PolledBy(r) =>
            /\ res.body.iceCandidates = drained.ice
            /\ GetIce(signalingStore, r) = <<>>
            /\ drained.polled => res.body.iceCandidates = <<>>

\* A poll has returned two different fragments.
C3_Witness ==
    \E r \in Ids :
        /\ PolledBy(r)
        /\ Len(res.body.iceCandidates) = 2
        /\ res.body.iceCandidates[1].candidate # res.body.iceCandidates[2].candidate

\* C4: an offer, answer or candidate handler that reaches its partner check
\* for a caller without a partner (pointer null or record missing) answers
\* 400 "No partner connected" and leaves the whole store as it was.
C4_NoPartnerLinked ==
    [][\A r \in Suspended :
          (Resumed(r) /\ r.op \in {"offer", "answer", "ice-candidate"} /\ Unpaired(r.id)) =>
              /\ res' = Err(r.op, r.id, 400, "No partner connected")
              /\ signalingStore' = signalingStore]_vars

\* An unpaired caller has been refused while the store held something.
C4_Witness ==
    \E id \in Ids, op \in {"offer", "answer", "ice-candidate"} :
        /\ Unpaired(id)
        /\ res = Err(op, id, 400, "No partner connected")
        /\ signalingStore # EmptyMap

\* C5: the end handler run for a caller without a partner answers success
\* and leaves the whole store as it was.
C5_EndUnpaired ==
    [][\A r \in Suspended :
          (Resumed(r) /\ r.op = "end" /\ Unpaired(r.id)) =>
              /\ res' = Ok("end", r.id)
              /\ signalingStore' = signalingStore]_vars

\* An unpaired caller's end has been answered with success while the store
\* held something.
C5_Witness ==
    \E id \in Ids :
        /\ Unpaired(id)
        /\ res = Ok("end", id)
        /\ signalingStore # EmptyMap

\* C6: once a recipient has polled, each further poll by it with no send
\* accepted for it in between returns signal = null and no candidates, and
\* leaves the store unchanged.
C6_PollIdempotent ==
    [][\A r \in Ids :
          (PollStep(r) /\ sent[r].polled) =>
              /\ res'.body = [signal |-> NullSignal, iceCandidates |-> <<>>]
              /\ signalingStore' = signalingStore]_vars

\* A recipient has polled again with nothing accepted for it since its
\* previous poll, while the store held entries for someone else.
C6_Witness ==
    \E r \in Ids :
        /\ PolledBy(r)
        /\ drained.polled
        /\ signalingStore # EmptyMap

\* Everything accepted for r since its last poll, and nothing else, is stored
\* under r's two keys.
MailboxHolds(r) ==
    /\ GetSignal(signalingStore, r) = sent[r].signal
    /\ GetIce(signalingStore, r) = sent[r].ice

\* C7: under every interleaving of suspended send handlers with polls, the
\* store holds for each recipient exactly what was accepted for it since its
\* last poll; a poll returns all of it, removes both of the caller's keys in
\* the same step and touches nothing else, so what suspended handlers write
\* afterwards is kept for the next poll.
C7_AtomicDrain ==
    /\ [](\A r \in Ids : MailboxHolds(r))
    /\ [][\A r \in Ids :
             PollStep(r) =>
                 /\ res'.body.signal = sent[r].signal
                 /\ res'.body.iceCandidates = sent[r].ice
                 /\ ~MapHas(signalingStore', SlotKey(r))
                 /\ ~MapHas(signalingStore', IceKey(r))
                 /\ \A k \in (DOMAIN signalingStore) \ {SlotKey(r), IceKey(r)} :
                        MapHas(signalingStore', k) /\ signalingStore'[k] = signalingStore[k]]_vars

\* A recipient has drained a fragment while a handler that will append
\* another fragment for it was suspended.
C7_Witness ==
    \E r \in Ids, s \in Suspended :
        /\ s.op = "ice-candidate"
        /\ s.user # NoUser
        /\ s.user.partnerId = r
        /\ PolledBy(r)
        /\ Len(res.body.iceCandidates) > 0

\* C17: a successful slot write (offer, answer, end) by S changes the slot
\* of partner_of(S) and nothing else: no queue, no other recipient's slot; a
\* successful candidate send by S appends to the queue of partner_of(S) and
\* changes nothing else; a poll by R returns what is stored under R's two
\* keys and changes no other recipient's slot or queue.
C17_OneRecipientOneChannel ==
    /\ [][\A r \in Suspended :
             (/\ Resumed(r) /\ r.op \in {"offer", "answer", "end"}
              /\ ~Unpaired(r.id) /\ res'.status = 200)
                 => /\ GetSignal(signalingStore', PartnerOf(r.id)).type = r.op
                    /\ GetSignal(signalingStore', PartnerOf(r.id)).from = r.id
                    /\ \A y \in Ids \ {PartnerOf(r.id)} :
                           GetSignal(signalingStore', y) = GetSignal(signalingStore, y)
                    /\ \A y \in Ids : GetIce(signalingStore', y) = GetIce(signalingStore, y)]_vars
    /\ [][\A r \in Suspended :
             (/\ Resumed(r) /\ r.op = "ice-candidate"
              /\ ~Unpaired(r.id) /\ res'.status = 200)
                 => /\ Len(GetIce(signalingStore', PartnerOf(r.id)))
                           = Len(GetIce(signalingStore, PartnerOf(r.id))) + 1
                    /\ \A i \in 1..Len(GetIce(signalingStore, PartnerOf(r.id))) :
                           GetIce(signalingStore', PartnerOf(r.id))[i]
                               = GetIce(signalingStore, PartnerOf(r.id))[i]
                    /\ \A y \in Ids \ {PartnerOf(r.id)} :
                           GetIce(signalingStore', y) = GetIce(signalingStore, y)
                    /\ \A y \in Ids : GetSignal(signalingStore', y) = GetSignal(signalingStore, y)]_vars
    /\ [][\A r \in Ids :
             PollStep(r) =>
                 /\ res'.body.signal = GetSignal(signalingStore, r)
                 /\ res'.body.iceCandidates = GetIce(signalingStore, r)
                 /\ \A y \in Ids \ {r} :
                        /\ GetSignal(signalingStore', y) = GetSignal(signalingStore, y)
                        /\ GetIce(signalingStore', y) = GetIce(signalingStore, y)]_vars

\* u1's offer has been written into u2's slot while u2's queue and u1's own
\* slot held entries, and they are still there.
C17_Witness ==
    /\ res = Ok("offer", "u1")
    /\ GetSignal(signalingStore, "u2").type = "offer"
    /\ GetSignal(signalingStore, "u2").from = "u1"
    /\ Len(GetIce(signalingStore, "u2")) = 1
    /\ GetSignal(signalingStore, "u1") # NullSignal

\* This step resumes a send of the given type addressed to y and accepts it.
AcceptedFor(y, ops) ==
    \E r \in Suspended :
        Resumed(r) /\ r.op \in ops /\ PartnerOf(r.id) = y /\ res'.status = 200

\* C18, checked under SpecExpiry: while time passes and accounts send
\* heartbeats, log out or stay away, a slot changes only by its recipient's
\* poll or by a newer slot write for that recipient, a queue only by its
\* recipient's poll or by an append that keeps what it held; and a poll
\* returns whatever is stored for its caller, whatever its timestamp.
C18_NoExpiry ==
    /\ [][\A y \in Ids :
             GetSignal(signalingStore', y) # GetSignal(signalingStore, y) =>
                 \/ PollStep(y)
                 \/ /\ AcceptedFor(y, {"offer", "answer", "end"})
                    /\ GetSignal(signalingStore', y) # NullSignal
                    /\ GetSignal(signalingStore', y).timestamp = now]_vars
    /\ [][\A y \in Ids :
             GetIce(signalingStore', y) # GetIce(signalingStore, y) =>
                 \/ PollStep(y)
                 \/ /\ AcceptedFor(y, {"ice-candidate"})
                    /\ SubSeq(GetIce(signalingStore', y), 1, Len(GetIce(signalingStore, y)))
                           = GetIce(signalingStore, y)]_vars
    /\ [][\A y \in Ids :
             PollStep(y) =>
                 /\ res'.body.signal = GetSignal(signalingStore, y)
                 /\ res'.body.iceCandidates = GetIce(signalingStore, y)]_vars

\* u2 has polled u1's offer and candidate five minutes or more after they
\* were written, u1 having been silent for as long.
C18_Witness ==
    /\ PolledBy("u2")
    /\ res.body.signal.type = "offer"
    /\ res.body.signal.from = "u1"
    /\ now - res.body.signal.timestamp >= 300000
    /\ Len(res.body.iceCandidates) = 1
    /\ now - res.body.iceCandidates[1].timestamp >= 300000
    /\ now - users["u1"].lastActiveAt >= 300000

\* C19: in every reachable state, whatever the store holds and whatever was
\* sent or polled before, a send handler (offer, answer, candidate, end)
\* resumed for a caller that has a partner answers success and writes its
\* entry: the slot of the partner then holds that entry, or the partner's
\* queue ends with that fragment.
C19_NoOrdering ==
    [][\A r \in Suspended :
          (/\ Resumed(r)
           /\ r.op \in {"offer", "answer", "ice-candidate", "end"}
           /\ ~Unpaired(r.id))
              => /\ res' = [op |-> r.op, id |-> r.id, status |-> 200,
                            body |-> [success |-> TRUE]]
                 /\ r.op \in {"offer", "answer"} =>
                        /\ GetSignal(signalingStore', PartnerOf(r.id)).type = r.op
                        /\ GetSignal(signalingStore', PartnerOf(r.id)).sdp = r.payload
                        /\ GetSignal(signalingStore', PartnerOf(r.id)).from = r.id
                 /\ r.op = "end" =>
                        /\ GetSignal(signalingStore', PartnerOf(r.id)).type = "end"
                        /\ GetSignal(signalingStore', PartnerOf(r.id)).from = r.id
                 /\ r.op = "ice-candidate" =>
                        LET queue == GetIce(signalingStore', PartnerOf(r.id))
                        IN  /\ Len(queue) > 0
                            /\ queue[Len(queue)].candidate = r.payload
                            /\ queue[Len(queue)].from = r.id]_vars

\* u2's answer has been accepted and written over an entry u1 had not
\* polled, no offer of u1 having ever been accepted for u2.
C19_Witness ==
    /\ res = Ok("answer", "u2")
    /\ sent["u1"].replaced
    /\ GetSignal(signalingStore, "u1").type = "answer"
    /\ sent["u2"] = NothingSent

\* This step receives a send request and answers it without awaiting.
AnsweredAtOnce ==
    /\ requests' = requests + 1
    /\ inflight' = inflight
    /\ res'.op \in {"offer", "answer", "ice-candidate", "end"}

\* C20: no offer or answer handler gets past its payload check without a
\* session description, and no stored offer or answer lacks one; a send
\* answered before its lookup is awaited is answered 400 "SDP offer
\* required" / "SDP answer required" or 500, a send refused after the
\* lookup is answered 400 "No partner connected"; and every send that is
\* not answered with success leaves the whole store as it was.
C20_FailedSendWritesNothing ==
    /\ [](\A r \in Suspended :
             r.op \in {"offer", "answer"} => r.payload # Absent)
    /\ [](\A y \in Ids :
             GetSignal(signalingStore, y).type \in {"offer", "answer"}
                 => GetSignal(signalingStore, y).sdp # Absent)
    /\ [][AnsweredAtOnce =>
             /\ \/ res'.status = 400 /\ res'.op = "offer"
                    /\ res'.body.error = "SDP offer required"
                \/ res'.status = 400 /\ res'.op = "answer"
                    /\ res'.body.error = "SDP answer required"
                \/ res'.status = 500 /\ res'.body.error = "Server error"
             /\ signalingStore' = signalingStore]_vars
    /\ [][\A r \in Suspended :
             (/\ Resumed(r)
              /\ r.op \in {"offer", "answer", "ice-candidate", "end"}
              /\ res'.status # 200)
                 => /\ Unpaired(r.id)
                    /\ res'.status = 400
                    /\ res'.body.error = "No partner connected"
                    /\ signalingStore' = signalingStore]_vars

\* An offer without a session description from a caller without a partner
\* has been answered "SDP offer required" while the store held entries.
C20_Witness ==
    \E id \in Ids :
        /\ Unpaired(id)
        /\ res = Err("offer", id, 400, "SDP offer required")
        /\ signalingStore # EmptyMap

----------------------------------------------------------------------------
(* Properties of candidate sends, checked under SpecCandidates. *)

\* C21: a candidate send is refused only for a caller without a partner
\* (400 "No partner connected") or by a failed lookup (500), never for its
\* payload; the handler run for a paired caller whose body has no candidate
\* answers success and appends one fragment with an absent candidate and
\* from = caller at the end of the partner's queue, and a poll returns the
\* caller's queue as it stands, that fragment in its appended position.
C21_CandidateNotValidated ==
    /\ [](res.op = "ice-candidate" =>
             \/ res = Ok("ice-candidate", res.id)
             \/ res = Err("ice-candidate", res.id, 400, "No partner connected")
             \/ res = Err("ice-candidate", res.id, 500, "Server error"))
    /\ [][\A r \in Suspended :
             (/\ Resumed(r) /\ r.op = "ice-candidate"
              /\ r.payload = Absent /\ ~Unpaired(r.id)) =>
                 /\ res' = Ok("ice-candidate", r.id)
                 /\ GetIce(signalingStore', PartnerOf(r.id)) =
                        Append(GetIce(signalingStore, PartnerOf(r.id)),
                               [candidate |-> Absent, from |-> r.id, timestamp |-> now])
                 /\ \A k \in DOMAIN signalingStore :
                        k # IceKey(PartnerOf(r.id)) =>
                            MapHas(signalingStore', k) /\ signalingStore'[k] = signalingStore[k]]_vars
    /\ [][\A b \in Ids :
             PollStep(b) => res'.body.iceCandidates = GetIce(signalingStore, b)]_vars

\* u2 has polled and got two fragments of its partner u1: c1, then the one
\* sent without a candidate.
C21_Witness ==
    /\ Mutual("u1", "u2")
    /\ PolledBy("u2")
    /\ Len(res.body.iceCandidates) = 2
    /\ res.body.iceCandidates[1].candidate = "c1"
    /\ res.body.iceCandidates[2].candidate = Absent
    /\ res.body.iceCandidates[2].from = "u1"

\* This step is the candidate handler r answering success to a caller whose
\* partner is y.
AppendStep(r, y) ==
    /\ Resumed(r) /\ r.op = "ice-candidate"
    /\ res' = Ok("ice-candidate", r.id)
    /\ PartnerOf(r.id) = y

\* C25: a fragment enters its recipient's queue once, at the end, in the
\* step that accepts it; a poll by the recipient returns the whole queue in
\* its order and leaves it empty in the same step; no other step changes
\* the queue.  So each accepted fragment is returned by the first poll after
\* its append and by no later one, and fragments come out in the order
\* their appends completed, within a poll and across polls.
C25_ExactlyOnce ==
    /\ [][\A y \in Ids :
             IF PollStep(y)
             THEN /\ res'.body.iceCandidates = GetIce(signalingStore, y)
                  /\ GetIce(signalingStore', y) = <<>>
             ELSE IF \E r \in Suspended : AppendStep(r, y)
             THEN \E r \in Suspended :
                      /\ AppendStep(r, y)
                      /\ GetIce(signalingStore', y) =
                             Append(GetIce(signalingStore, y),
                                    [candidate |-> r.payload, from |-> r.id, timestamp |-> now])
             ELSE GetIce(signalingStore', y) = GetIce(signalingStore, y)]_vars
    /\ [](\A y \in Ids : sent[y].polled => GetIce(signalingStore, y) = <<>>)

\* u2 has polled and got the two fragments accepted for it, c2 before c1 as
\* their appends ran, and its queue is empty.
C25_Witness ==
    /\ PolledBy("u2")
    /\ Len(drained.ice) = 2
    /\ drained.ice[1].candidate = "c2" /\ drained.ice[2].candidate = "c1"
    /\ res.body.iceCandidates = drained.ice
    /\ GetIce(signalingStore, "u2") = <<>>

----------------------------------------------------------------------------
(* Progress of the relay, checked under SpecLive. *)

RelayOps == {"offer", "answer", "ice-candidate", "end"}

\* A handler of the route op called by id is suspended.
Pending(op, id) == \E r \in Suspended : r.op = op /\ r.id = id

\* C23: as long as the server takes requests, a poll by any identity can
\* run in every state, and it answers 200 in the same step, with signal =
\* null and no candidates when nothing is stored for the caller; every
\* suspended send handler can run in every state, whatever its recipient
\* does, and the step that ends it is its response (an ack or an error);
\* and when settled lookups get their continuations run, every send that
\* has started is eventually ended.
C23_NoWaiting ==
    /\ [](\A id \in Ids : requests < MaxRequests => ENABLED Poll(id))
    /\ [][\A b \in Ids :
             PollStep(b) =>
                 /\ res'.status = 200
                 /\ (~MapHas(signalingStore, SlotKey(b)) /\ ~MapHas(signalingStore, IceKey(b)))
                        => res'.body = [signal |-> NullSignal, iceCandidates |-> <<>>]]_vars
    /\ [](\A r \in Suspended :
             ENABLED (OfferResume(r) \/ AnswerResume(r) \/ IceResume(r) \/ EndResume(r)))
    /\ [][\A r \in Suspended :
             Resumed(r) =>
                 res'.op = r.op /\ res'.id = r.id /\ res'.status \in {200, 400, 409}]_vars
    /\ \A id \in Ids, op \in RelayOps : Pending(op, id) ~> ~Pending(op, id)

\* u2 has polled and got nothing while an offer of its partner u1 was still
\* suspended at its lookup.
C23_Witness ==
    /\ Mutual("u1", "u2")
    /\ PolledBy("u2")
    /\ res.body = [signal |-> NullSignal, iceCandidates |-> <<>>]
    /\ Pending("offer", "u1")

----------------------------------------------------------------------------
(* Properties of linking, checked under SpecLink. *)

\* C8: in every state, if partner_of(A) = B then partner_of(B) = A.
C8_PairingSymmetric ==
    \A a \in Ids, b \in Ids : PartnerOf(a) = b => PartnerOf(b) = a

\* C9: a partner pointer that is set keeps its value in every later state.
C9_SetOnce ==
    [][\A x \in Ids : PartnerOf(x) # Null => PartnerOf(x)' = PartnerOf(x)]_vars

\* C10: no identity is its own partner, no two identities have the same
\* partner, and a link request carrying the caller's own invite code is
\* refused without changing a partner pointer.
C10_NoSelfNoShared ==
    /\ [](\A a \in Ids : PartnerOf(a) # a)
    /\ [](\A a \in Ids, c \in Ids :
             (a # c /\ PartnerOf(a) # Null) => PartnerOf(a) # PartnerOf(c))
    /\ [][\A r \in Suspended :
             (Resumed(r) /\ r.op = "link-partner" /\ r.at = "findOne"
                /\ r.partner # NoUser /\ r.partner._id = r.id) =>
                 /\ res' = Err("link-partner", r.id, 400, "Cannot link with yourself")
                 /\ users' = users]_vars

\* C24: for every recipient R, the entry in R's slot and every fragment in
\* R's queue have from = partner_of(R), in every state reached by sends
\* interleaved with link requests.
C24_OnlyPartnerWrites ==
    \A r \in Ids :
        /\ MapHas(signalingStore, SlotKey(r)) =>
               signalingStore[SlotKey(r)].from = PartnerOf(r)
        /\ \A i \in 1..Len(GetIce(signalingStore, r)) :
               GetIce(signalingStore, r)[i].from = PartnerOf(r)

----------------------------------------------------------------------------
(* Properties of presence, checked under SpecTouch, SpecTyping and
   SpecPresence. *)

\* This step suspends the handler s at an await.
Started(s) == CopiesIn(s, inflight') = CopiesIn(s, inflight) + 1

\* This step issues the write of an activity touch (login, /me or heartbeat)
\* of the account x.
TouchStep(x) ==
    \E s \in BagToSet(inflight') :
        /\ Started(s)
        /\ s.id = x
        /\ \/ s.op \in {"login", "me"} /\ s.at = "save"
           \/ s.op = "heartbeat"

\* This step is the presence read r answering from the partner record it read.
StatusStep(r) ==
    /\ Resumed(r)
    /\ r.op = "partner-status" /\ r.at = "findPartner"
    /\ r.partner # NoUser

\* The most recent response is a presence read that found the partner.
StatusOf(id) ==
    /\ res.op = "partner-status" /\ res.id = id /\ res.status = 200
    /\ res.body.connected

\* C11: an activity touch of X (login, /me, heartbeat) stores is_online =
\* true and last_active_at = now, and nothing but a touch of X changes X's
\* last_active_at; a presence read answers isOnline = true when the record
\* it read has the flag set and a last_active_at less than 5 minutes before
\* the answer, and isOnline = false when that last_active_at is 5 minutes or
\* more before the answer, whatever the stored flag is.
C11_OnlineDerived ==
    /\ [][\A x \in Ids :
             (TouchStep(x) /\ users[x] # NoUser) =>
                 users'[x].isOnline /\ users'[x].lastActiveAt = now]_vars
    /\ [][\A x \in Ids :
             (users[x] # NoUser /\ users'[x].lastActiveAt # users[x].lastActiveAt)
                 => TouchStep(x)]_vars
    /\ [][\A r \in Suspended :
             StatusStep(r) =>
                 /\ (r.partner.isOnline /\ now - r.partner.lastActiveAt < 300000)
                        => res'.body.isOnline
                 /\ (now - r.partner.lastActiveAt >= 300000) => ~res'.body.isOnline
                 /\ ~r.partner.isOnline => ~res'.body.isOnline]_vars

\* A read has answered isOnline = false for a partner whose stored flag is
\* still true and whose last touch is 5 minutes or more old.
C11_Witness ==
    \E id \in Ids :
        /\ StatusOf(id)
        /\ ~res.body.isOnline
        /\ PartnerOf(id) # Null
        /\ users[PartnerOf(id)] # NoUser
        /\ users[PartnerOf(id)].isOnline
        /\ res.body.lastActive = users[PartnerOf(id)].lastActiveAt
        /\ now - users[PartnerOf(id)].lastActiveAt >= 300000

\* This step issues the write of a typing call of the account x with the
\* given flag.
TypingStep(x, flag) ==
    \E s \in BagToSet(inflight') :
        Started(s) /\ s.op = "typing" /\ s.id = x /\ s.payload = flag

\* C12: setTyping(X, true) stores is_typing = true and typing_at = now, and
\* nothing but a typing call of X changes X's is_typing or typing_at; a
\* presence read answers isTyping = true when the record it read has the
\* flag set and a typing_at less than 5 seconds before the answer, and
\* isTyping = false when that typing_at is 5 seconds or more before the
\* answer although the flag is set.
C12_TypingDerived ==
    /\ [][\A x \in Ids :
             (TypingStep(x, "true") /\ users[x] # NoUser) =>
                 users'[x].isTyping /\ users'[x].typingAt = now]_vars
    /\ [][\A x \in Ids :
             (/\ users[x] # NoUser
              /\ \/ users'[x].typingAt # users[x].typingAt
                 \/ users'[x].isTyping # users[x].isTyping)
                 => \E flag \in TypingFlags : TypingStep(x, flag)]_vars
    /\ [][\A r \in Suspended :
             StatusStep(r) =>
                 /\ (r.partner.isTyping /\ now - r.partner.typingAt < 5000)
                        => res'.body.isTyping
                 /\ (r.partner.isTyping /\ now - r.partner.typingAt >= 5000)
                        => ~res'.body.isTyping
                 /\ ~r.partner.isTyping => ~res'.body.isTyping]_vars

\* A read has answered isTyping = false for a partner whose stored flag is
\* still true and whose typing call, made at 4999 ms, is 5 seconds or more
\* old.
C12_Witness ==
    \E id \in Ids :
        /\ StatusOf(id)
        /\ ~res.body.isTyping
        /\ PartnerOf(id) # Null
        /\ users[PartnerOf(id)] # NoUser
        /\ users[PartnerOf(id)].isTyping
        /\ users[PartnerOf(id)].typingAt = 4999
        /\ now - users[PartnerOf(id)].typingAt >= 5000

\* This step issues the write of a logout of the account x.
LogoutStep(x) ==
    \E s \in BagToSet(inflight') : Started(s) /\ s.op = "logout" /\ s.id = x

\* C13: a logout of X stores is_online = false and changes nothing else of
\* X's record (last_active_at, is_typing, typing_at, partner pointer) nor
\* any other record; a stored is_online = false becomes true only by a
\* touch of the same account; and a presence read that read the record while
\* is_online was false answers isOnline = false however recent the record's
\* last_active_at is.
C13_LogoutFrame ==
    /\ [][\A x \in Ids :
             (LogoutStep(x) /\ users[x] # NoUser) =>
                 /\ ~users'[x].isOnline
                 /\ users'[x].lastActiveAt = users[x].lastActiveAt
                 /\ users'[x].isTyping = users[x].isTyping
                 /\ users'[x].typingAt = users[x].typingAt
                 /\ users'[x].partnerId = users[x].partnerId
                 /\ \A y \in Ids \ {x} : users'[y] = users[y]]_vars
    /\ [][\A x \in Ids :
             (users[x] # NoUser /\ ~users[x].isOnline /\ users'[x].isOnline)
                 => TouchStep(x)]_vars
    /\ [][\A r \in Suspended :
             (StatusStep(r) /\ ~r.partner.isOnline) =>
                 /\ res'.body.connected
                 /\ ~res'.body.isOnline
                 /\ res'.body.lastActive = r.partner.lastActiveAt]_vars

\* After a heartbeat at 4999 ms and a logout of the same account, a read has
\* answered isOnline = false with the last activity less than 5 minutes old.
C13_Witness ==
    \E id \in Ids :
        /\ StatusOf(id)
        /\ ~res.body.isOnline
        /\ res.body.lastActive = 4999
        /\ now - res.body.lastActive < 300000
        /\ PartnerOf(id) # Null
        /\ users[PartnerOf(id)] # NoUser
        /\ ~users[PartnerOf(id)].isOnline
        /\ users[PartnerOf(id)].lastActiveAt = 4999

\* C14: a presence read by X answers connected = false when X's record is
\* missing or has no partner, and when the record of X's partner is missing;
\* otherwise the record it reads is the stored record of partner_of(X), and
\* it answers connected = true with isOnline, lastActive and isTyping
\* derived from that record.
C14_PresenceOfPartner ==
    /\ [][\A r \in Suspended :
             (/\ Resumed(r)
              /\ r.op = "partner-status" /\ r.at = "findById"
              /\ (r.user = NoUser \/ r.user.partnerId = Null))
                 => (res'.id = r.id /\ res'.status = 200
                       /\ res'.body = [connected |-> FALSE])]_vars
    /\ [][\A s \in BagToSet(inflight') :
             (Started(s) /\ s.op = "partner-status" /\ s.at = "findPartner")
                 => (PartnerOf(s.id) # Null /\ s.partner = users[PartnerOf(s.id)])]_vars
    /\ [][\A r \in Suspended :
             (/\ Resumed(r)
              /\ r.op = "partner-status" /\ r.at = "findPartner")
                 => /\ res'.id = r.id /\ res'.status = 200
                    /\ IF r.partner = NoUser
                       THEN res'.body = [connected |-> FALSE]
                       ELSE res'.body =
                              [connected |-> TRUE,
                               isOnline |-> (r.partner.isOnline
                                             /\ now - r.partner.lastActiveAt < 300000),
                               lastActive |-> r.partner.lastActiveAt,
                               isTyping |-> (r.partner.isTyping
                                             /\ now - r.partner.typingAt < 5000)]]_vars

\* u3, whose pointer names u1, has read the presence of u1: online, typing,
\* last active at 4999 ms, while u3's own record and u2's say otherwise.
C14_Witness ==
    /\ StatusOf("u3")
    /\ PartnerOf("u3") = "u1"
    /\ res.body.isOnline /\ res.body.isTyping /\ res.body.lastActive = 4999
    /\ users["u1"].lastActiveAt = 4999
    /\ ~users["u3"].isOnline /\ ~users["u3"].isTyping /\ users["u3"].lastActiveAt = 0
    /\ ~users["u2"].isOnline /\ ~users["u2"].isTyping /\ users["u2"].lastActiveAt = 0

\* C22: a typing call of X stores is_typing = (typing is true), stores
\* typing_at = now when typing is true and null otherwise, whatever the
\* request carries as the flag (true, false, nothing, a non-boolean value),
\* and leaves is_online, last_active_at and the partner pointer of X
\* unchanged.
C22_SetTypingEveryFlag ==
    [][\A x \in Ids, flag \in TypingFlags :
          (TypingStep(x, flag) /\ users[x] # NoUser) =>
              /\ users'[x].isTyping = (flag = "true")
              /\ users'[x].typingAt = (IF flag = "true" THEN now ELSE NoDate)
              /\ users'[x].isOnline = users[x].isOnline
              /\ users'[x].lastActiveAt = users[x].lastActiveAt
              /\ users'[x].partnerId = users[x].partnerId]_vars

----------------------------------------------------------------------------
(* Signaling and presence together, checked under SpecSeparate. *)

SignalingOps == {"offer", "answer", "ice-candidate", "end", "poll", "partner-status"}

PresenceOps == {"login", "me", "heartbeat", "logout", "typing"}

\* This step belongs to a handler of one of the routes ops: it starts the
\* handler or moves it to its next await, answers the request at once, or
\* resumes the handler to its response.
StepOf(ops) ==
    \/ \E s \in BagToSet(inflight') : Started(s) /\ s.op \in ops
    \/ \E r \in Suspended : Resumed(r) /\ r.op \in ops
    \/ requests' = requests + 1 /\ inflight' = inflight /\ res'.op \in ops

\* The presence fields of the account x are the same before and after.
PresenceKept(x) ==
    IF users[x] = NoUser THEN users'[x] = NoUser
    ELSE /\ users'[x] # NoUser
         /\ users'[x].lastActiveAt = users[x].lastActiveAt
         /\ users'[x].isOnline = users[x].isOnline
         /\ users'[x].isTyping = users[x].isTyping
         /\ users'[x].typingAt = users[x].typingAt

\* C26: no step of an offer, answer, candidate, end, poll or presence-read
\* handler changes a presence field of any account; a presence read that
\* answers 5 minutes or more after the partner's stored last_active_at
\* answers isOnline = false, whatever the partner has sent or polled since;
\* and no step of a login, /me, heartbeat, logout or typing handler changes
\* the mailbox store.
C26_SignalingPresenceSeparate ==
    /\ [][StepOf(SignalingOps) => \A x \in Ids : PresenceKept(x)]_vars
    /\ [][\A r \in Suspended :
             (StatusStep(r) /\ now - users[r.partner._id].lastActiveAt >= 300000)
                 => ~res'.body.isOnline]_vars
    /\ [][StepOf(PresenceOps) => signalingStore' = signalingStore]_vars

\* u1 sent a heartbeat at 0 and an offer 5 minutes later; u2's presence read
\* answers isOnline = false while the offer of that instant waits in u2's
\* slot and u1's stored flag is still true.
C26_Witness ==
    /\ StatusOf("u2")
    /\ ~res.body.isOnline
    /\ users["u1"].isOnline /\ users["u1"].lastActiveAt = 0
    /\ MapHas(signalingStore, SlotKey("u2"))
    /\ signalingStore[SlotKey("u2")].from = "u1"
    /\ signalingStore[SlotKey("u2")].timestamp = 300000

----------------------------------------------------------------------------
(* Properties of authentication, checked under SpecAuth. *)

\* The identities for which a request carries a token the server signed.
Holders == {id \in Ids : GenerateToken(id) \in Tokens}

\* This step answers a request 401 without calling its handler.
DenyStep ==
    /\ requests' = requests + 1
    /\ inflight' = inflight
    /\ res'.status = 401

\* C15: a request without a token, or with a token the server did not sign,
\* is answered 401 and changes neither the mailbox store nor any account
\* record (presence fields, partner pointer); no handler runs, and no
\* response other than 401 is given, for an identity that is named only by
\* such a token.
C15_Unauthenticated ==
    /\ [](\A r \in Suspended : r.id \in Holders)
    /\ [](res.status \notin {0, 401} => res.id \in Holders)
    /\ [][DenyStep =>
             /\ res'.id = Null
             /\ res'.body.error \in {"No token, authorization denied", "Token is not valid"}
             /\ signalingStore' = signalingStore
             /\ users' = users
             /\ sent' = sent]_vars

\* A request with a token that does not verify has been refused while the
\* store held an entry, an account was online and u1 and u2 were linked.
C15_Witness ==
    /\ res.status = 401
    /\ res.body.error = "Token is not valid"
    /\ signalingStore # EmptyMap
    /\ \E x \in Ids : users[x].isOnline
    /\ Mutual("u1", "u2")

----------------------------------------------------------------------------
(* Properties of the push, checked under SpecPush. *)

\* The handler r has nothing left to do but the push and the response: a
\* link request whose two saves went through, or a send-signal request of a
\* caller that has a partner.
OnlyPushLeft(r) ==
    /\ r.op \in {"link-partner", "send-signal"}
    /\ \/ r.at \in {"pushFind", "pushSend", "pushUnset"}
       \/ r.op = "link-partner" /\ r.at = "savePartner"
       \/ /\ r.op = "send-signal" /\ r.at = "findById"
          /\ r.user # NoUser /\ r.user.partnerId # Null

\* C16: a link request whose two saves went through, and a send-signal
\* request of a caller that has a partner, are answered with success
\* however the push ends: delivered, failed, no subscription, or an expired
\* subscription whose removal fails too.
C16_PushNeverChangesResponse ==
    [][\A r \in Suspended :
          (Resumed(r) /\ OnlyPushLeft(r)) => (res'.id = r.id /\ res'.status = 200)]_vars

====
